---- MODULE Spec2Model ----
(***************************************************************************)
(* Model of noonlight/__init__.py: the NoonlightAlarm aggregate (its JSON  *)
(* attribute map, its sensor-event queue and its sent list), the           *)
(* NoonlightSensorEvent value type and the NoonlightClient transport       *)
(* contract.  Every coroutine of NoonlightAlarm is one action: the caller  *)
(* drives one operation at a time and the operation runs to completion,    *)
(* the transport's answer being an input of the action.                    *)
(***************************************************************************)
EXTENDS Integers, Sequences, FiniteSets, TLC

VARIABLES
    json_data,           \* NoonlightAlarm._json_data: key -> JSON value
    sensor_events,       \* NoonlightAlarm._sensor_events (list)
    sent_sensor_events,  \* NoonlightAlarm._sent_sensor_events (list)
    op,                  \* the operation that ran last, with its arguments
    transport,           \* the transport calls that operation made, in order
    result,              \* what that operation returned or raised
    pending              \* the send_events calls suspended at their transport call

vars == <<json_data, sensor_events, sent_sensor_events, op, transport, result, pending>>

(***************************************************************************)
(* Bounds of the model.                                                    *)
(***************************************************************************)
MaxEvents == 2      \* events enqueued on one alarm
MaxLocations == 2   \* location records stored on one alarm

(***************************************************************************)
(* JSON values.  A Python dict is a function from its keys; a value is a   *)
(* record tagged with its type, so that 200, "200" and None differ.        *)
(***************************************************************************)
EmptyDict == [k \in {} |-> <<>>]

DictSet(d, key, value) ==
    [k \in (DOMAIN d) \cup {key} |-> IF k = key THEN value ELSE d[k]]

\* dict.update(other): every key of other is written, the rest is kept
DictUpdate(d, other) ==
    [k \in (DOMAIN d) \cup (DOMAIN other) |-> IF k \in DOMAIN other THEN other[k] ELSE d[k]]

\* created_at of a location: a JSON string, a datetime (after parsing) or absent
NoCreatedAt == [type |-> "absent", str |-> "", dt |-> 0]
CreatedAtStr(s) == [type |-> "str", str |-> s, dt |-> 0]
CreatedAtDatetime(n) == [type |-> "datetime", str |-> "", dt |-> n]

\* a location dict: kind stands for its payload (address lines or lat/lng)
Location(kind, created_at) == [kind |-> kind, created_at |-> created_at]
NullLocation == Location("", NoCreatedAt)

\* items holds a JSON object whose key order matters (services), as the list
\* of its (key, value) pairs in insertion order
JNone ==
    [type |-> "null", str |-> "", num |-> 0, dict |-> EmptyDict, loc |-> NullLocation,
     items |-> <<>>]
JNum(n) == [JNone EXCEPT !.type = "num", !.num = n]
JStr(s) == [JNone EXCEPT !.type = "str", !.str = s]
JDict(d) == [JNone EXCEPT !.type = "dict", !.dict = d]
JLoc(l) == [JNone EXCEPT !.type = "location", !.loc = l]
JBool(b) == [JNone EXCEPT !.type = "bool", !.num = IF b THEN 1 ELSE 0]
JItems(pairs) == [JNone EXCEPT !.type = "items", !.items = pairs]
\* a datetime value, counted by its year
JDatetime(n) == [JNone EXCEPT !.type = "datetime", !.num = n]

\* the truth value Python gives a JSON value
Truthy(v) ==
    IF v.type \in {"bool", "num"} THEN v.num /= 0
    ELSE IF v.type = "str" THEN v.str /= ""
    ELSE IF v.type = "dict" THEN DOMAIN v.dict /= {}
    ELSE IF v.type = "items" THEN v.items /= <<>>
    ELSE v.type /= "null"

\* dict.get(key) with the default None
Get(d, key) == IF key \in DOMAIN d THEN d[key] ELSE JNone

(***************************************************************************)
(* NoonlightSensorEvent.                                                   *)
(***************************************************************************)
\* A timestamp argument is a datetime (text is its isoformat()) or a string.
TimestampArgs ==
    { [type |-> "datetime", text |-> "2020-01-01T00:00:00"],
      [type |-> "str",      text |-> "2020-01-01T00:00:00Z"],
      [type |-> "str",      text |-> "2020-01-01T00:00:01Z"] }
DeviceIds == {"door", "smoke"}
Values == {"open", "closed"}

\* __init__: a datetime is stored as "{}Z".format(timestamp.isoformat()).
\* value stands for every field that is not part of the identity
\* (device_model, device_manufacturer, device_name, attribute, value, unit).
NoonlightSensorEvent(timestamp, device_id, value) ==
    [ value     |-> value,
      timestamp |-> IF timestamp.type = "datetime" THEN timestamp.text \o "Z"
                    ELSE timestamp.text,
      device_id |-> device_id ]

members(e) == <<e.timestamp, e.device_id>>

\* __eq__ with a fault: equality on every field
eq_every_field(a, b) == a = b

\* __eq__ (both operands are NoonlightSensorEvent objects)
eq(a, b) == members(a) = members(b)

\* Python's `x in list`
Contains(list, e) == \E i \in 1..Len(list) : eq(list[i], e)

\* Python's set(list): of equal elements the first one inserted is kept
SetOf(list) ==
    { list[i] : i \in { n \in 1..Len(list) : \A j \in 1..(n-1) : ~eq(list[j], list[n]) } }

\* set(a) - set(b)
SetDifference(a, b) == { e \in SetOf(a) : ~Contains(b, e) }

\* list(set): the iteration order of a set is not specified
ListsOf(S) ==
    { s \in [1..Cardinality(S) -> S] : \A i, j \in 1..Cardinality(S) : i /= j => s[i] /= s[j] }

Range(s) == { s[i] : i \in 1..Len(s) }

\* unsent_events with a fault: the sent events are not taken out
unsent_events_all(events, sent_events) == ListsOf(SetOf(events))

\* the unsent_events property: the lists it may return
unsent_events(events, sent_events) == ListsOf(SetDifference(events, sent_events))

(***************************************************************************)
(* NoonlightClient: the transport.                                         *)
(***************************************************************************)
HttpStatuses == {200, 400, 503}

handle_error(status) ==
    IF status = 400 THEN "BadRequest"
    ELSE IF status = 401 THEN "Unauthorized"
    ELSE IF status = 403 THEN "Forbidden"
    ELSE IF status = 429 THEN "TooManyRequests"
    ELSE IF status = 500 THEN "InternalServerError"
    ELSE "ClientError"

\* Resolves with a fault: every status below 400 counts as success
Resolves_below_400(answer) == answer.http < 400

\* _get/_post/_put: a 2xx answer resolves to its JSON body, any other raises
Resolves(answer) == 200 <= answer.http /\ answer.http < 300

\* what the server may answer: a status and a JSON body
Answers(bodies) ==
    { [http |-> s, body |-> b] : s \in { h \in HttpStatuses : 200 <= h /\ h < 300 }, b \in bodies }
    \cup { [http |-> s, body |-> EmptyDict] : s \in { h \in HttpStatuses : ~(200 <= h /\ h < 300) } }

Call(endpoint, events, answer) ==
    [events |-> events, http |-> answer.http, body |-> answer.body, endpoint |-> endpoint]

(***************************************************************************)
(* What an operation returned.                                             *)
(***************************************************************************)
NoResult ==
    [value |-> JNone, kind |-> "", list |-> <<>>, flag |-> FALSE, locations |-> <<>>, error |-> "",
     keys |-> <<>>]
ReturnNone == [NoResult EXCEPT !.kind = "None"]
ReturnList(l) == [NoResult EXCEPT !.kind = "list", !.list = l]
ReturnBool(b) == [NoResult EXCEPT !.kind = "bool", !.flag = b]
ReturnValue(v) == [NoResult EXCEPT !.kind = "value", !.value = v]
ReturnLocations(l) == [NoResult EXCEPT !.kind = "locations", !.locations = l]
ReturnKeys(l) == [NoResult EXCEPT !.kind = "keys", !.keys = l]
Raise(e) == [NoResult EXCEPT !.kind = "raise", !.error = e]
\* an exception constructed with the server's error payload
RaiseWith(e, payload) == [Raise(e) EXCEPT !.value = JDict(payload)]

Op(name) == [name |-> name, event |-> <<>>, send_immediately |-> FALSE]

(***************************************************************************)
(* NoonlightAlarm: construction.                                           *)
(***************************************************************************)
\* the alarm resource the create-alarm call answered with
CreatedAlarm == [k \in {"id", "status"} |-> IF k = "id" THEN JStr("alarm-1") ELSE JStr("ACTIVE")]

CreatedAlarms ==
    { CreatedAlarm,
      DictSet(CreatedAlarm, "locations", JDict([k \in {"addresses"} |->
          <<Location("address", CreatedAtStr("2020-01-01T00:00:00.000Z"))>>])),
      DictSet(CreatedAlarm, "locations", JDict([k \in {"coordinates"} |->
          <<Location("coordinates", CreatedAtStr("2021-01-01T00:00:00.000Z"))>>])) }

Init ==
    /\ json_data \in CreatedAlarms
    /\ sensor_events = <<>>
    /\ sent_sensor_events = <<>>
    /\ op = Op("create")
    /\ transport = <<>>
    /\ result = NoResult
    /\ pending = <<>>

(***************************************************************************)
(* NoonlightAlarm: the sensor-event queue.                                 *)
(***************************************************************************)
SendSensorEventsBodies ==
    { [k \in {"id"} |-> JStr("ack-1")],
      [k \in {"status"} |-> JStr("rejected")],
      EmptyDict }

\* send_events with a fault: an acknowledged batch is returned but not
\* recorded as sent
send_events_forgets_ack(events, snapshot, answer) ==
    IF Len(snapshot) > 0
    THEN /\ transport' = <<Call("send_sensor_events", snapshot, answer)>>
         /\ sent_sensor_events' = sent_sensor_events
         /\ IF ~Resolves(answer)
            THEN result' = Raise(handle_error(answer.http))
            ELSE IF "id" \in DOMAIN answer.body
            THEN result' = ReturnList(snapshot)
            ELSE result' = ReturnList(<<>>)
    ELSE /\ transport' = <<>>
         /\ sent_sensor_events' = sent_sensor_events
         /\ result' = ReturnList(<<>>)

\* send_events with a fault: a call the transport fails is issued once more
send_events_retries_once(events, snapshot, answer) ==
    IF Len(snapshot) > 0
    THEN /\ transport' = IF Resolves(answer)
                         THEN <<Call("send_sensor_events", snapshot, answer)>>
                         ELSE <<Call("send_sensor_events", snapshot, answer),
                                Call("send_sensor_events", snapshot, answer)>>
         /\ IF ~Resolves(answer)
            THEN /\ result' = Raise(handle_error(answer.http))
                 /\ sent_sensor_events' = sent_sensor_events
            ELSE IF "id" \in DOMAIN answer.body
            THEN /\ sent_sensor_events' = sent_sensor_events \o snapshot
                 /\ result' = ReturnList(snapshot)
            ELSE /\ sent_sensor_events' = sent_sensor_events
                 /\ result' = ReturnList(<<>>)
    ELSE /\ transport' = <<>>
         /\ sent_sensor_events' = sent_sensor_events
         /\ result' = ReturnList(<<>>)

\* send_events with a fault: an acknowledged batch marks every event that is
\* unsent when the response arrives, not the snapshot
send_events_marks_all_unsent(events, snapshot, answer) ==
    IF Len(snapshot) > 0
    THEN /\ transport' = <<Call("send_sensor_events", snapshot, answer)>>
         /\ IF ~Resolves(answer)
            THEN /\ result' = Raise(handle_error(answer.http))
                 /\ sent_sensor_events' = sent_sensor_events
            ELSE IF "id" \in DOMAIN answer.body
            THEN /\ \E unsent \in unsent_events(events, sent_sensor_events) :
                        sent_sensor_events' = sent_sensor_events \o unsent
                 /\ result' = ReturnList(snapshot)
            ELSE /\ sent_sensor_events' = sent_sensor_events
                 /\ result' = ReturnList(<<>>)
    ELSE /\ transport' = <<>>
         /\ sent_sensor_events' = sent_sensor_events
         /\ result' = ReturnList(<<>>)

\* send_events with a fault: an acknowledged batch marks only the events that
\* are not marked sent yet
send_events_skips_sent(events, snapshot, answer) ==
    IF Len(snapshot) > 0
    THEN /\ transport' = <<Call("send_sensor_events", snapshot, answer)>>
         /\ IF ~Resolves(answer)
            THEN /\ result' = Raise(handle_error(answer.http))
                 /\ sent_sensor_events' = sent_sensor_events
            ELSE IF "id" \in DOMAIN answer.body
            THEN /\ LET unmarked(e) == ~Contains(sent_sensor_events, e)
                    IN  sent_sensor_events' = sent_sensor_events \o SelectSeq(snapshot, unmarked)
                 /\ result' = ReturnList(snapshot)
            ELSE /\ sent_sensor_events' = sent_sensor_events
                 /\ result' = ReturnList(<<>>)
    ELSE /\ transport' = <<>>
         /\ sent_sensor_events' = sent_sensor_events
         /\ result' = ReturnList(<<>>)

\* send_events with a fault: only the first event of the batch is marked sent
send_events_marks_first(events, snapshot, answer) ==
    IF Len(snapshot) > 0
    THEN /\ transport' = <<Call("send_sensor_events", snapshot, answer)>>
         /\ IF ~Resolves(answer)
            THEN /\ result' = Raise(handle_error(answer.http))
                 /\ sent_sensor_events' = sent_sensor_events
            ELSE IF "id" \in DOMAIN answer.body
            THEN /\ sent_sensor_events' = Append(sent_sensor_events, snapshot[1])
                 /\ result' = ReturnList(snapshot)
            ELSE /\ sent_sensor_events' = sent_sensor_events
                 /\ result' = ReturnList(<<>>)
    ELSE /\ transport' = <<>>
         /\ sent_sensor_events' = sent_sensor_events
         /\ result' = ReturnList(<<>>)

\* send_events with a fault: the batch is marked sent whatever the response holds
send_events_ignores_id(events, snapshot, answer) ==
    IF Len(snapshot) > 0
    THEN /\ transport' = <<Call("send_sensor_events", snapshot, answer)>>
         /\ IF ~Resolves(answer)
            THEN /\ result' = Raise(handle_error(answer.http))
                 /\ sent_sensor_events' = sent_sensor_events
            ELSE /\ sent_sensor_events' = sent_sensor_events \o snapshot
                 /\ result' = IF "id" \in DOMAIN answer.body THEN ReturnList(snapshot)
                              ELSE ReturnList(<<>>)
    ELSE /\ transport' = <<>>
         /\ sent_sensor_events' = sent_sensor_events
         /\ result' = ReturnList(<<>>)

\* send_events with a fault: the transport is called with an empty batch too
send_events_always_posts(events, snapshot, answer) ==
    /\ transport' = <<Call("send_sensor_events", snapshot, answer)>>
    /\ IF ~Resolves(answer)
       THEN /\ result' = Raise(handle_error(answer.http))
            /\ sent_sensor_events' = sent_sensor_events
       ELSE IF "id" \in DOMAIN answer.body
       THEN /\ sent_sensor_events' = sent_sensor_events \o snapshot
            /\ result' = ReturnList(snapshot)
       ELSE /\ sent_sensor_events' = sent_sensor_events
            /\ result' = ReturnList(<<>>)

\* send_events on the queue `events`: snapshot is the list unsent_events returned
send_events(events, snapshot, answer) ==
    IF Len(snapshot) > 0
    THEN /\ transport' = <<Call("send_sensor_events", snapshot, answer)>>
         /\ IF ~Resolves(answer)
            THEN /\ result' = Raise(handle_error(answer.http))
                 /\ sent_sensor_events' = sent_sensor_events
            ELSE IF "id" \in DOMAIN answer.body
            THEN /\ sent_sensor_events' = sent_sensor_events \o snapshot
                 /\ result' = ReturnList(snapshot)
            ELSE /\ sent_sensor_events' = sent_sensor_events
                 /\ result' = ReturnList(<<>>)
    ELSE /\ transport' = <<>>
         /\ sent_sensor_events' = sent_sensor_events
         /\ result' = ReturnList(<<>>)

SendEvents ==
    \E snapshot \in unsent_events(sensor_events, sent_sensor_events) :
    \E answer \in Answers(SendSensorEventsBodies) :
        /\ op' = Op("send_events")
        /\ send_events(sensor_events, snapshot, answer)
        /\ UNCHANGED <<json_data, sensor_events, pending>>

\* add_event with a fault: the new event is enqueued and never flushed
add_event_never_sends(event, send_immediately) ==
    /\ op' = [name |-> "add_event", event |-> <<event>>, send_immediately |-> send_immediately]
    /\ IF ~Contains(sensor_events, event)
       THEN /\ sensor_events' = Append(sensor_events, event)
            /\ \E unsent \in unsent_events(sensor_events', sent_sensor_events) :
                   result' = ReturnList(unsent)
            /\ transport' = <<>>
            /\ sent_sensor_events' = sent_sensor_events
       ELSE /\ result' = ReturnNone
            /\ transport' = <<>>
            /\ UNCHANGED <<sensor_events, sent_sensor_events>>
    /\ UNCHANGED json_data

\* add_event with a fault: the new event is enqueued only when the flush did
\* not raise
add_event_drops_on_error(event, send_immediately) ==
    /\ op' = [name |-> "add_event", event |-> <<event>>, send_immediately |-> send_immediately]
    /\ IF ~Contains(sensor_events, event)
       THEN IF send_immediately
            THEN \E snapshot \in unsent_events(Append(sensor_events, event), sent_sensor_events) :
                 \E answer \in Answers(SendSensorEventsBodies) :
                     /\ send_events(Append(sensor_events, event), snapshot, answer)
                     /\ sensor_events' = IF Resolves(answer) THEN Append(sensor_events, event)
                                         ELSE sensor_events
            ELSE /\ sensor_events' = Append(sensor_events, event)
                 /\ \E unsent \in unsent_events(sensor_events', sent_sensor_events) :
                        result' = ReturnList(unsent)
                 /\ transport' = <<>>
                 /\ sent_sensor_events' = sent_sensor_events
       ELSE /\ result' = ReturnNone
            /\ transport' = <<>>
            /\ UNCHANGED <<sensor_events, sent_sensor_events>>
    /\ UNCHANGED json_data

\* add_event(event=..., send_immediately=...)
add_event(event, send_immediately) ==
    /\ op' = [name |-> "add_event", event |-> <<event>>, send_immediately |-> send_immediately]
    /\ IF ~Contains(sensor_events, event)
       THEN /\ sensor_events' = Append(sensor_events, event)
            /\ IF send_immediately
               THEN \E snapshot \in unsent_events(sensor_events', sent_sensor_events) :
                    \E answer \in Answers(SendSensorEventsBodies) :
                        send_events(sensor_events', snapshot, answer)
               ELSE /\ \E unsent \in unsent_events(sensor_events', sent_sensor_events) :
                           result' = ReturnList(unsent)
                    /\ transport' = <<>>
                    /\ sent_sensor_events' = sent_sensor_events
       ELSE /\ result' = ReturnNone
            /\ transport' = <<>>
            /\ UNCHANGED <<sensor_events, sent_sensor_events>>
    /\ UNCHANGED json_data

AddEvent ==
    \E timestamp \in TimestampArgs, device_id \in DeviceIds, value \in Values :
    \E send_immediately \in BOOLEAN :
        LET event == NoonlightSensorEvent(timestamp, device_id, value)
        IN  /\ Contains(sensor_events, event) \/ Len(sensor_events) < MaxEvents
            /\ add_event(event, send_immediately)
            /\ UNCHANGED pending

NextQueue == AddEvent \/ SendEvents

\* the queue of an alarm that was created without a location
InitQueue == Init /\ json_data = CreatedAlarm

SpecQueue == InitQueue /\ [][NextQueue]_vars

(***************************************************************************)
(* Properties of the sensor-event queue, under SpecQueue.                  *)
(***************************************************************************)
\* the events that are enqueued and not sent, by identity
Unsent == { e \in Range(sensor_events) :
              \A i \in 1..Len(sent_sensor_events) : members(sent_sensor_events[i]) /= members(e) }
Sent == Range(sent_sensor_events)

\* the operation that ran last called the transport once and got a 2xx answer
Answered == Len(transport) = 1 /\ 200 <= transport[1].http /\ transport[1].http < 300
Acknowledged == Answered /\ "id" \in DOMAIN transport[1].body
Unacknowledged == Answered /\ "id" \notin DOMAIN transport[1].body

\* C1: send_events is all-or-nothing per batch.  With a non-empty unsent
\* snapshot and a response holding 'id', every event of the snapshot is in
\* sent_events afterwards and the call returns exactly the snapshot; with a
\* response without 'id' the call returns [], sent_events is unchanged and
\* every event of the snapshot is still unsent.  The events a call marks as
\* sent are none or the whole batch.
C1_AllOrNothing ==
    [][ (op'.name = "send_events" /\ Unsent /= {}) =>
            /\ Acknowledged' =>
                  /\ Unsent \subseteq Sent'
                  /\ result'.kind = "list"
                  /\ Range(result'.list) = Unsent
                  /\ Len(result'.list) = Cardinality(Unsent)
            /\ Unacknowledged' =>
                  /\ result' = ReturnList(<<>>)
                  /\ sent_sensor_events' = sent_sensor_events
                  /\ Unsent \subseteq Unsent'
            /\ Sent' \ Sent \in {{}, Unsent}
      ]_vars

\* C1 witness: a batch of MaxEvents events was acknowledged, all of them are
\* now sent and the batch was returned.
C1_Witness ==
    /\ op.name = "send_events"
    /\ Acknowledged
    /\ Len(transport[1].events) = MaxEvents
    /\ result = ReturnList(transport[1].events)
    /\ Range(transport[1].events) \subseteq Sent
    /\ Unsent = {}

\* C2: identity-based dedup.  `events` never holds two entries with the same
\* (timestamp, device_id); add_event with an event whose identity is already
\* enqueued (sent or not) returns None, leaves events and sent_events
\* unchanged and calls no transport.
NoDuplicateIdentity ==
    \A i, j \in 1..Len(sensor_events) :
        i /= j => <<sensor_events[i].timestamp, sensor_events[i].device_id>>
                      /= <<sensor_events[j].timestamp, sensor_events[j].device_id>>

IdentityEnqueued(e) ==
    \E i \in 1..Len(sensor_events) :
        /\ sensor_events[i].timestamp = e.timestamp
        /\ sensor_events[i].device_id = e.device_id

C2_IdentityDedup ==
    [][ /\ NoDuplicateIdentity'
        /\ (op'.name = "add_event" /\ IdentityEnqueued(op'.event[1])) =>
              /\ result' = ReturnNone
              /\ sensor_events' = sensor_events
              /\ sent_sensor_events' = sent_sensor_events
              /\ transport' = <<>>
      ]_vars

\* C2 witness: an event with the identity of an enqueued event and another
\* value was added and refused.
C2_Witness ==
    /\ op.name = "add_event"
    /\ result = ReturnNone
    /\ transport = <<>>
    /\ Len(sensor_events) = 1
    /\ IdentityEnqueued(op.event[1])
    /\ op.event[1].value /= sensor_events[1].value

\* C3: a failed batch loses no data.  No operation removes an event from
\* `events`; after a send_events whose response lacks the acknowledgment id
\* every event of the batch is still enqueued and unsent; an unsent event
\* stays unsent until a batch holding it is acknowledged; and every batch
\* send_events transmits holds every event that was unsent before the call.
C3_FailedBatchLosesNothing ==
    [][ /\ Len(sensor_events') >= Len(sensor_events)
        /\ SubSeq(sensor_events', 1, Len(sensor_events)) = sensor_events
        /\ (op'.name = "send_events" /\ Unacknowledged') =>
              /\ Range(transport'[1].events) \subseteq Range(sensor_events')
              /\ Range(transport'[1].events) \subseteq Unsent'
        /\ Unsent \subseteq
              (Unsent' \cup (IF Acknowledged' THEN Range(transport'[1].events) ELSE {}))
        /\ (op'.name = "send_events" /\ Len(transport') = 1) =>
              Unsent \subseteq Range(transport'[1].events)
      ]_vars

\* C3 witness: a batch of MaxEvents events went unacknowledged and all of
\* them are still enqueued and unsent.
C3_Witness ==
    /\ op.name = "send_events"
    /\ Unacknowledged
    /\ Len(transport[1].events) = MaxEvents
    /\ Range(transport[1].events) = Unsent
    /\ sent_sensor_events = <<>>
    /\ result = ReturnList(<<>>)

\* C8: send idempotence.  send_events with no unsent event calls no
\* transport, returns [] and leaves events and sent_events unchanged; a
\* send_events right after an acknowledged one transmits nothing.
C8_SendIdempotence ==
    [][ /\ (op'.name = "send_events" /\ Unsent = {}) =>
              /\ transport' = <<>>
              /\ result' = ReturnList(<<>>)
              /\ sensor_events' = sensor_events
              /\ sent_sensor_events' = sent_sensor_events
        /\ (op.name = "send_events" /\ Acknowledged /\ op'.name = "send_events") =>
              /\ transport' = <<>>
              /\ result' = ReturnList(<<>>)
      ]_vars

\* C8 witness: send_events ran with every enqueued event already sent and
\* transmitted nothing.
C8_Witness ==
    /\ op.name = "send_events"
    /\ transport = <<>>
    /\ result = ReturnList(<<>>)
    /\ Len(sensor_events) = MaxEvents
    /\ Sent = Range(sensor_events)

\* C9: add_event with an event whose identity is not enqueued appends it.
\* With send_immediately it performs one send_events whose batch holds the new
\* event and every event unsent before, and returns that send's result;
\* without, it calls no transport, leaves sent_events unchanged and returns
\* the unsent events, the new one among them.
C9_AddEvent ==
    [][ (op'.name = "add_event" /\ ~IdentityEnqueued(op'.event[1])) =>
            /\ sensor_events' = Append(sensor_events, op'.event[1])
            /\ op'.send_immediately =>
                  /\ Len(transport') = 1
                  /\ transport'[1].endpoint = "send_sensor_events"
                  /\ Range(transport'[1].events) = Unsent \cup {op'.event[1]}
                  /\ Acknowledged' =>
                        /\ result' = ReturnList(transport'[1].events)
                        /\ sent_sensor_events' = sent_sensor_events \o transport'[1].events
                  /\ Unacknowledged' =>
                        /\ result' = ReturnList(<<>>)
                        /\ sent_sensor_events' = sent_sensor_events
            /\ ~op'.send_immediately =>
                  /\ transport' = <<>>
                  /\ sent_sensor_events' = sent_sensor_events
                  /\ result'.kind = "list"
                  /\ Range(result'.list) = Unsent \cup {op'.event[1]}
                  /\ Len(result'.list) = Cardinality(Unsent) + 1
      ]_vars

\* C9 witness: an event was added with send_immediately while another one was
\* unsent, and both went out in one acknowledged batch.
C9_Witness ==
    /\ op.name = "add_event"
    /\ op.send_immediately
    /\ Acknowledged
    /\ Len(transport[1].events) = MaxEvents
    /\ op.event[1] \in Range(transport[1].events)
    /\ result = ReturnList(transport[1].events)
    /\ Sent = Range(sensor_events)

(***************************************************************************)
(* NoonlightAlarm: status.                                                 *)
(***************************************************************************)
UpdateAlarmBodies ==
    { [k \in {"status"} |-> JNum(200)],
      [k \in {"status"} |-> JNum(400)],
      [k \in {"status"} |-> JStr("CANCELED")],
      EmptyDict }

\* cancel with a fault: a 2xx answer is taken as success, whatever its status field
cancel_trusts_http(answer) ==
    /\ transport' = <<Call("update_alarm", <<>>, answer)>>
    /\ IF ~Resolves(answer)
       THEN /\ result' = Raise(handle_error(answer.http))
            /\ json_data' = json_data
       ELSE /\ json_data' = DictSet(json_data, "status", JStr("CANCELED"))
            /\ result' = ReturnBool(TRUE)

cancel(answer) ==
    /\ transport' = <<Call("update_alarm", <<>>, answer)>>
    /\ IF ~Resolves(answer)
       THEN /\ result' = Raise(handle_error(answer.http))
            /\ json_data' = json_data
       ELSE IF Get(answer.body, "status") = JNum(200)
       THEN /\ json_data' = DictSet(json_data, "status", JStr("CANCELED"))
            /\ result' = ReturnBool(TRUE)
       ELSE /\ json_data' = json_data
            /\ result' = ReturnBool(FALSE)

Cancel ==
    \E answer \in Answers(UpdateAlarmBodies) :
        /\ op' = Op("cancel")
        /\ cancel(answer)
        /\ UNCHANGED <<sensor_events, sent_sensor_events, pending>>

GetAlarmStatusBodies ==
    { [k \in {"status", "extra"} |-> IF k = "status" THEN JStr("ACTIVE") ELSE JNum(1)],
      [k \in {"status"} |-> JStr("CANCELED")],
      [k \in {"extra"} |-> JNum(2)],
      [k \in {"status", "id"} |-> IF k = "status" THEN JStr("ACTIVE") ELSE JStr("alarm-2")],
      [k \in {"status", "locations"} |->
          IF k = "status" THEN JStr("ACTIVE")
          ELSE JDict([c \in {"coordinates"} |->
                   <<Location("coordinates", CreatedAtStr("2021-01-01T00:00:00.000Z"))>>])] }

\* get_status with a fault: only the status of the response is stored
get_status_keeps_status_only(answer) ==
    /\ transport' = <<Call("get_alarm_status", <<>>, answer)>>
    /\ IF ~Resolves(answer)
       THEN /\ result' = Raise(handle_error(answer.http))
            /\ json_data' = json_data
       ELSE /\ json_data' = IF "status" \in DOMAIN answer.body
                            THEN DictSet(json_data, "status", answer.body["status"])
                            ELSE json_data
            /\ result' = ReturnValue(Get(json_data', "status"))

get_status(answer) ==
    /\ transport' = <<Call("get_alarm_status", <<>>, answer)>>
    /\ IF ~Resolves(answer)
       THEN /\ result' = Raise(handle_error(answer.http))
            /\ json_data' = json_data
       ELSE /\ json_data' = IF "status" \in DOMAIN answer.body
                            THEN DictUpdate(json_data, answer.body)
                            ELSE json_data
            /\ result' = ReturnValue(Get(json_data', "status"))

GetStatus ==
    \E answer \in Answers(GetAlarmStatusBodies) :
        /\ op' = Op("get_status")
        /\ get_status(answer)
        /\ UNCHANGED <<sensor_events, sent_sensor_events, pending>>

(***************************************************************************)
(* NoonlightAlarm: locations.                                              *)
(***************************************************************************)
\* the creation timestamps a server may put on a location (or none at all)
LocationTimestamps ==
    { CreatedAtStr("2020-01-01T00:00:00.000Z"),
      CreatedAtStr("2021-01-01T00:00:00.000Z"),
      CreatedAtStr("not-a-date"),
      NoCreatedAt }

\* datetime.strptime(s, NOONLIGHT_DATETIME_FORMAT): the datetime, counted by its
\* year, or ValueError for a string the format does not match
ValueError == [type |-> "ValueError", str |-> "", dt |-> 0]

strptime(s) ==
    IF s = "2020-01-01T00:00:00.000Z" THEN CreatedAtDatetime(2020)
    ELSE IF s = "2021-01-01T00:00:00.000Z" THEN CreatedAtDatetime(2021)
    ELSE ValueError

\* lines 90-94: a created_at that is not a datetime is parsed in place; a
\* string that does not parse is left as it is
ParseCreatedAt(location) ==
    IF location.created_at.type = "str" /\ strptime(location.created_at.str) /= ValueError
    THEN [location EXCEPT !.created_at = strptime(location.created_at.str)]
    ELSE location

ParseAll(list) == [i \in 1..Len(list) |-> ParseCreatedAt(list[i])]

\* self._json_data.get('locations',{}).get(key,[])
StoredLocations(data, key) ==
    IF "locations" \in DOMAIN data /\ key \in DOMAIN data["locations"].dict
    THEN data["locations"].dict[key]
    ELSE <<>>

\* line 88
locations_merged(data) == StoredLocations(data, "addresses") \o StoredLocations(data, "coordinates")

\* the rank of a string key in the order of str; the one string that is
\* left unparsed here is "not-a-date", so two string keys always tie
StringRank(s) == IF s = "" THEN 0 ELSE 1

\* whether Python orders two sort keys: two datetimes or two strings; None
\* (an absent created_at) with anything, or a str with a datetime, is a TypeError
Ordered(a, b) ==
    \/ a.type = "datetime" /\ b.type = "datetime"
    \/ a.type = "str" /\ b.type = "str"

\* a < b on two sort keys that Python orders
KeyLess(a, b) ==
    IF a.type = "datetime" THEN a.dt < b.dt ELSE StringRank(a.str) < StringRank(b.str)

\* sorted() compares every element with another one, so it raises as soon as
\* two keys of the list are not ordered
Comparable(list) ==
    \A i, j \in 1..Len(list) :
        i /= j => Ordered(list[i].created_at, list[j].created_at)

\* an insertion into a list sorted in descending order, after the elements
\* whose key is not smaller (sorted is stable, also with reverse=True)
Insert(list, x) ==
    LET p == Cardinality({ i \in 1..Len(list) : ~KeyLess(list[i].created_at, x.created_at) })
    IN  SubSeq(list, 1, p) \o <<x>> \o SubSeq(list, p + 1, Len(list))

RECURSIVE SortedDescending(_)
SortedDescending(list) ==
    IF list = <<>> THEN <<>>
    ELSE Insert(SortedDescending(SubSeq(list, 1, Len(list) - 1)), list[Len(list)])

\* line 95: sorted(locations_merged, key=lambda x: x.get('created_at'), reverse=True)
sorted(list) == IF Comparable(list) THEN ReturnLocations(SortedDescending(list))
                ELSE Raise("TypeError")

\* the stored location lists after the loop of lines 89-94 has run over them
ParseStored(data) ==
    IF "locations" \in DOMAIN data
    THEN DictSet(data, "locations",
             JDict([k \in DOMAIN data["locations"].dict |->
                 IF k \in {"addresses", "coordinates"}
                 THEN ParseAll(data["locations"].dict[k])
                 ELSE data["locations"].dict[k]]))
    ELSE data

\* the locations property
locations ==
    /\ json_data' = ParseStored(json_data)
    /\ result' = sorted(ParseAll(locations_merged(json_data)))

Locations ==
    /\ op' = Op("locations")
    /\ locations
    /\ transport' = <<>>
    /\ UNCHANGED <<sensor_events, sent_sensor_events, pending>>

\* _add_location(type, data)
add_location(data, type, location) ==
    IF type \in {"coordinates", "address"}
    THEN LET key == IF type = "address" THEN "addresses" ELSE type
             d1 == IF "locations" \notin DOMAIN data
                   THEN DictSet(data, "locations", JDict(EmptyDict))
                   ELSE data
             l1 == d1["locations"].dict
             l2 == IF type \notin DOMAIN l1 THEN DictSet(l1, key, <<>>) ELSE l1
         IN  DictSet(d1, "locations", JDict(DictSet(l2, key, Append(l2[key], location))))
    ELSE data

UpdateAlarmLocationBodies(type) ==
    { [k \in {type} |-> JLoc(Location(type, created_at))] : created_at \in LocationTimestamps }
    \cup { [k \in {"status"} |-> JNum(200)] }

\* _update_location_by_type with a fault: a response without the type key
\* still stores a location
update_location_by_type_stores_anyway(type, answer) ==
    IF type \in {"coordinates", "address"}
    THEN /\ transport' = <<Call("update_alarm_location", <<>>, answer)>>
         /\ IF ~Resolves(answer)
            THEN /\ result' = Raise(handle_error(answer.http))
                 /\ json_data' = json_data
            ELSE IF type \in DOMAIN answer.body
            THEN /\ json_data' = add_location(json_data, type, answer.body[type].loc)
                 /\ result' = ReturnBool(TRUE)
            ELSE /\ json_data' = add_location(json_data, type, Location(type, NoCreatedAt))
                 /\ result' = ReturnBool(FALSE)
    ELSE /\ transport' = <<>>
         /\ json_data' = json_data
         /\ result' = ReturnBool(FALSE)

\* _update_location_by_type(type, data)
update_location_by_type(type, answer) ==
    IF type \in {"coordinates", "address"}
    THEN /\ transport' = <<Call("update_alarm_location", <<>>, answer)>>
         /\ IF ~Resolves(answer)
            THEN /\ result' = Raise(handle_error(answer.http))
                 /\ json_data' = json_data
            ELSE IF type \in DOMAIN answer.body
            THEN /\ json_data' = add_location(json_data, type, answer.body[type].loc)
                 /\ result' = ReturnBool(TRUE)
            ELSE /\ json_data' = json_data
                 /\ result' = ReturnBool(FALSE)
    ELSE /\ transport' = <<>>
         /\ json_data' = json_data
         /\ result' = ReturnBool(FALSE)

UpdateLocationCoordinates ==
    \E answer \in Answers(UpdateAlarmLocationBodies("coordinates")) :
        /\ Len(locations_merged(json_data)) < MaxLocations
        /\ op' = Op("update_location_coordinates")
        /\ update_location_by_type("coordinates", answer)
        /\ UNCHANGED <<sensor_events, sent_sensor_events, pending>>

UpdateLocationAddress ==
    \E answer \in Answers(UpdateAlarmLocationBodies("address")) :
        /\ Len(locations_merged(json_data)) < MaxLocations
        /\ op' = Op("update_location_address")
        /\ update_location_by_type("address", answer)
        /\ UNCHANGED <<sensor_events, sent_sensor_events, pending>>

NextAlarm ==
    \/ Cancel
    \/ GetStatus
    \/ UpdateLocationCoordinates
    \/ UpdateLocationAddress
    \/ Locations

SpecAlarm == Init /\ [][NextAlarm]_vars

(***************************************************************************)
(* Properties of the alarm's attributes and locations, under SpecAlarm.    *)
(***************************************************************************)
\* how often x occurs in a list
Count(list, x) == Cardinality({ i \in 1..Len(list) : list[i] = x })

\* b holds the entries of a, each as often
IsPermutation(a, b) ==
    /\ Len(a) = Len(b)
    /\ \A x \in Range(a) \cup Range(b) : Count(a, x) = Count(b, x)

\* C4: a successful location update appends.  For update_location_coordinates
\* and update_location_address alike, a response holding the requested type
\* key makes the call return True and adds the returned location to the
\* stored ones: every location stored before is still stored and there is
\* exactly one more.
C4_UpdateAppends ==
    [][ \A type \in {"coordinates", "address"} :
          ( /\ op'.name = "update_location_" \o type
            /\ Answered'
            /\ type \in DOMAIN transport'[1].body ) =>
              /\ result' = ReturnBool(TRUE)
              /\ Len(locations_merged(json_data')) = Len(locations_merged(json_data)) + 1
              /\ IsPermutation(locations_merged(json_data'),
                               Append(locations_merged(json_data), transport'[1].body[type].loc))
      ]_vars

\* C5: cancel semantics.  cancel() sets the local status to CANCELED and
\* returns True only when the response's status field equals 200; for any
\* other answered response it returns False, raises nothing and leaves the
\* local status and every other local attribute as they were.
C5_CancelSemantics ==
    [][ (op'.name = "cancel" /\ Answered') =>
            /\ result'.kind = "bool"
            /\ sensor_events' = sensor_events
            /\ sent_sensor_events' = sent_sensor_events
            /\ IF "status" \in DOMAIN transport'[1].body
                  /\ transport'[1].body["status"].type = "num"
                  /\ transport'[1].body["status"].num = 200
               THEN /\ result'.flag
                    /\ json_data'["status"] = JStr("CANCELED")
                    /\ \A k \in DOMAIN json_data \ {"status"} :
                          k \in DOMAIN json_data' /\ json_data'[k] = json_data[k]
               ELSE /\ ~result'.flag
                    /\ json_data' = json_data
      ]_vars

\* C5 witness: the update-alarm call was answered with status 400, cancel
\* returned False and the alarm is still ACTIVE.
C5_Witness ==
    /\ op.name = "cancel"
    /\ Answered
    /\ Get(transport[1].body, "status") = JNum(400)
    /\ result = ReturnBool(FALSE)
    /\ Get(json_data, "status") = JStr("ACTIVE")

\* C6: get_status merge.  With a 'status' key in the response every key of
\* the response is written into the local attribute map, the other local
\* keys are kept, and the call returns the response's status; without it the
\* local attribute map is unchanged and the call returns the local status.
C6_GetStatusMerge ==
    [][ (op'.name = "get_status" /\ Answered') =>
            IF "status" \in DOMAIN transport'[1].body
            THEN /\ DOMAIN json_data' = DOMAIN json_data \cup DOMAIN transport'[1].body
                 /\ \A k \in DOMAIN transport'[1].body : json_data'[k] = transport'[1].body[k]
                 /\ \A k \in DOMAIN json_data \ DOMAIN transport'[1].body :
                       json_data'[k] = json_data[k]
                 /\ result' = ReturnValue(transport'[1].body["status"])
            ELSE /\ json_data' = json_data
                 /\ result' = ReturnValue(Get(json_data, "status"))
      ]_vars

\* C6 witness: the response {"status": "ACTIVE", "extra": 1} was merged, the
\* call returned ACTIVE and the local map now holds extra = 1.
C6_Witness ==
    /\ op.name = "get_status"
    /\ Answered
    /\ DOMAIN transport[1].body = {"status", "extra"}
    /\ result = ReturnValue(JStr("ACTIVE"))
    /\ Get(json_data, "extra") = JNum(1)
    /\ Get(json_data, "id") = JStr("alarm-1")

\* C7: the alarm identity is immutable once assigned.  Whatever operations
\* ran and whatever the transport answered, `id` is the value it had when
\* the alarm was constructed.
C7_IdImmutable == Get(json_data, "id") = Get(CreatedAlarm, "id")

\* C10: location merge ordering.  `locations` returns exactly the stored
\* address locations and the stored coordinate locations, none dropped or
\* duplicated, ordered by creation timestamp, most recent first.
Descending(list) ==
    \A i, j \in 1..Len(list) :
        i < j => ~KeyLess(list[i].created_at, list[j].created_at)

C10_LocationMergeOrdering ==
    op.name = "locations" =>
        /\ result.kind = "locations"
        /\ IsPermutation(result.locations, locations_merged(json_data))
        /\ Descending(result.locations)

\* What holds of `locations` where it returns: the result is the stored
\* locations, each once, most recent first (with an address of 2020 and
\* coordinates of 2021 the coordinates come first).
LocationsOrderedWhereReturned ==
    (op.name = "locations" /\ result.kind = "locations") =>
        /\ IsPermutation(result.locations, locations_merged(json_data))
        /\ Descending(result.locations)

LocationsOrderedReached ==
    /\ op.name = "locations"
    /\ result.kind = "locations"
    /\ Len(result.locations) = MaxLocations
    /\ result.locations[1] = Location("coordinates", CreatedAtDatetime(2021))
    /\ result.locations[MaxLocations] = Location("address", CreatedAtDatetime(2020))
    /\ locations_merged(json_data)[1] = Location("address", CreatedAtDatetime(2020))

\* C11: malformed-timestamp fallback.  When a stored location has a missing
\* or unparseable created_at, `locations` does not fail: it returns the
\* stored locations with every such location after every location whose
\* timestamp is well formed.
Malformed(location) == location.created_at.type /= "datetime"

C11_MalformedTimestampFallback ==
    ( /\ op.name = "locations"
      /\ \E i \in 1..Len(locations_merged(json_data)) :
             Malformed(locations_merged(json_data)[i]) ) =>
        /\ result.kind = "locations"
        /\ IsPermutation(result.locations, locations_merged(json_data))
        /\ \A i, j \in 1..Len(result.locations) :
              (Malformed(result.locations[i]) /\ ~Malformed(result.locations[j])) => j < i

\* C12: a logically unsuccessful location update is a return value.  When
\* the answered response does not hold the requested type key,
\* update_location_coordinates / update_location_address return False, raise
\* nothing and leave the stored locations and every other attribute alone.
C12_UnsuccessfulUpdate ==
    [][ \A type \in {"coordinates", "address"} :
          ( /\ op'.name = "update_location_" \o type
            /\ Answered'
            /\ type \notin DOMAIN transport'[1].body ) =>
              /\ result' = ReturnBool(FALSE)
              /\ json_data' = json_data
              /\ sensor_events' = sensor_events
              /\ sent_sensor_events' = sent_sensor_events
      ]_vars

\* C12 witness: an address update was answered without an 'address' key, the
\* call returned False and the address stored at creation is still there.
C12_Witness ==
    /\ op.name = "update_location_address"
    /\ Answered
    /\ "address" \notin DOMAIN transport[1].body
    /\ result = ReturnBool(FALSE)
    /\ Len(StoredLocations(json_data, "addresses")) = 1

(***************************************************************************)
(* NoonlightAlarm: the accessors.  Each property read is one action; the   *)
(* alarm it reads is any alarm a create-alarm response can build, or the   *)
(* plain alarm with events in its queue.                                   *)
(***************************************************************************)
ServiceNames == {"police", "fire", "medical"}
ServiceValues == {JBool(TRUE), JBool(FALSE), JNone, JNum(1)}

\* the services objects of a response: the names in any order, each at most once
ServiceMaps ==
    UNION { { m \in [1..n -> [key : ServiceNames, value : ServiceValues]] :
                \A i, j \in 1..n : i /= j => m[i].key /= m[j].key }
            : n \in 0..Cardinality(ServiceNames) }

AlarmCreatedAts == { JStr("2020-01-01T00:00:00.000Z"), JStr("not-a-date"), JNum(0) }

TwoLocations ==
    DictSet(CreatedAlarm, "locations",
        JDict([k \in {"addresses", "coordinates"} |->
            IF k = "addresses"
            THEN <<Location("address", CreatedAtStr("2020-01-01T00:00:00.000Z"))>>
            ELSE <<Location("coordinates", CreatedAtStr("2021-01-01T00:00:00.000Z"))>>]))

AccessorAlarms ==
    CreatedAlarms \cup {TwoLocations}
    \cup { DictSet(CreatedAlarm, "services", JItems(m)) : m \in ServiceMaps }
    \cup { DictSet(CreatedAlarm, "created_at", c) : c \in AlarmCreatedAts }

\* queues that add_event and send_events build: nothing sent, one of two sent
AccessorQueues ==
    LET e1 == NoonlightSensorEvent([type |-> "str", text |-> "2020-01-01T00:00:00Z"], "door", "open")
        e2 == NoonlightSensorEvent([type |-> "str", text |-> "2020-01-01T00:00:01Z"], "smoke", "open")
    IN  { <<<<e1>>, <<>>>>, <<<<e1, e2>>, <<>>>>, <<<<e1, e2>>, <<e1>>>>, <<<<e1, e2>>, <<e1, e2>>>> }

InitAccessors ==
    /\ \/ /\ json_data \in AccessorAlarms
          /\ sensor_events = <<>>
          /\ sent_sensor_events = <<>>
       \/ /\ json_data = CreatedAlarm
          /\ \E queue \in AccessorQueues :
                 /\ sensor_events = queue[1]
                 /\ sent_sensor_events = queue[2]
    /\ op = Op("create")
    /\ transport = <<>>
    /\ result = NoResult
    /\ pending = <<>>

\* services with a fault: every key of the services map is listed
services_every_key(data) ==
    LET pairs == IF "services" \in DOMAIN data THEN data["services"].items ELSE <<>>
    IN  [i \in 1..Len(pairs) |-> pairs[i].key]

\* the services property: [key for key in services if services[key]]
services(data) ==
    LET pairs == IF "services" \in DOMAIN data THEN data["services"].items ELSE <<>>
        keep(p) == Truthy(p.value)
        key(p) == p.key
    IN  [i \in 1..Len(SelectSeq(pairs, keep)) |-> key(SelectSeq(pairs, keep)[i])]

\* NOONLIGHT_SERVICES_POLICE in self.services (and fire, medical)
is_service(data, name) == \E i \in 1..Len(services(data)) : services(data)[i] = name

\* the created_at property: the stored string parsed, datetime.min when it is
\* missing (the default "0001-01-01T00:00:00.00Z" parses to year 1) or when
\* strptime raises
created_at(data) ==
    IF "created_at" \notin DOMAIN data THEN JDatetime(1)
    ELSE IF data["created_at"].type = "str" /\ strptime(data["created_at"].str) /= ValueError
    THEN JDatetime(strptime(data["created_at"].str).dt)
    ELSE JDatetime(1)

\* a property that reads and returns without writing anything
Read(name, value) ==
    /\ op' = Op(name)
    /\ result' = value
    /\ transport' = <<>>
    /\ UNCHANGED <<json_data, sensor_events, sent_sensor_events, pending>>

ReadId == Read("id", ReturnValue(Get(json_data, "id")))
ReadStatus == Read("status", ReturnValue(Get(json_data, "status")))
ReadServices == Read("services", ReturnKeys(services(json_data)))
ReadIsPolice == Read("is_police", ReturnBool(is_service(json_data, "police")))
ReadIsFire == Read("is_fire", ReturnBool(is_service(json_data, "fire")))
ReadIsMedical == Read("is_medical", ReturnBool(is_service(json_data, "medical")))
ReadCreatedAt == Read("created_at", ReturnValue(created_at(json_data)))
ReadEvents == Read("events", ReturnList(sensor_events))
ReadSentEvents == Read("sent_events", ReturnList(sent_sensor_events))
ReadUnsentEvents ==
    \E unsent \in unsent_events(sensor_events, sent_sensor_events) :
        Read("unsent_events", ReturnList(unsent))

NextAccessors ==
    \/ ReadId
    \/ ReadStatus
    \/ ReadServices
    \/ ReadIsPolice
    \/ ReadIsFire
    \/ ReadIsMedical
    \/ ReadCreatedAt
    \/ Locations
    \/ ReadEvents
    \/ ReadSentEvents
    \/ ReadUnsentEvents

SpecAccessors == InitAccessors /\ [][NextAccessors]_vars

(***************************************************************************)
(* Properties of the accessors, under SpecAccessors.                       *)
(***************************************************************************)
AccessorNames ==
    { "id", "status", "services", "is_police", "is_fire", "is_medical", "created_at",
      "locations", "events", "sent_events", "unsent_events" }

\* C13: accessors are pure reads.  Reading id, status, services, is_police,
\* is_fire, is_medical, created_at, locations, events, sent_events or
\* unsent_events leaves the attribute map (every stored location record
\* included), the event queue and the sent list exactly as they were.
C13_AccessorsArePureReads ==
    [][ op'.name \in AccessorNames =>
            /\ json_data' = json_data
            /\ sensor_events' = sensor_events
            /\ sent_sensor_events' = sent_sensor_events
      ]_vars

\* the stored services map and the keys of it that hold a true value
StoredServices == IF "services" \in DOMAIN json_data THEN json_data["services"].items ELSE <<>>
ActiveServices ==
    { StoredServices[i].key :
        i \in { n \in 1..Len(StoredServices) :
                  /\ StoredServices[n].value.type \in {"bool", "num"}
                  /\ StoredServices[n].value.num /= 0 } }
PositionOf(name) == CHOOSE i \in 1..Len(StoredServices) : StoredServices[i].key = name

\* C16: services derivation.  `services` lists exactly the keys of the stored
\* services map whose value is truthy, each once, in the map's insertion
\* order (nothing when no map is stored); is_police / is_fire / is_medical
\* hold iff 'police' / 'fire' / 'medical' is in that list.
C16_ServicesDerivation ==
    /\ op.name = "services" =>
          /\ result.kind = "keys"
          /\ { result.keys[i] : i \in 1..Len(result.keys) } = ActiveServices
          /\ Len(result.keys) = Cardinality(ActiveServices)
          /\ \A i, j \in 1..Len(result.keys) :
                i < j => PositionOf(result.keys[i]) < PositionOf(result.keys[j])
    /\ op.name = "is_police" => result = ReturnBool("police" \in ActiveServices)
    /\ op.name = "is_fire" => result = ReturnBool("fire" \in ActiveServices)
    /\ op.name = "is_medical" => result = ReturnBool("medical" \in ActiveServices)

\* C16 witness: {police: true, fire: false, medical: true} gives
\* [police, medical].
C16_Witness ==
    /\ op.name = "services"
    /\ StoredServices = << [key |-> "police", value |-> JBool(TRUE)],
                           [key |-> "fire", value |-> JBool(FALSE)],
                           [key |-> "medical", value |-> JBool(TRUE)] >>
    /\ result = ReturnKeys(<<"police", "medical">>)

(***************************************************************************)
(* NoonlightClient: the transport calls and their result dispatch.         *)
(***************************************************************************)
\* statuses a server may answer with, around every boundary of the dispatch
TransportStatuses ==
    { 199, 200, 201, 204, 299, 300, 301, 400, 401, 403, 404, 429, 500, 502, 503 }

\* JSON bodies a server may answer with
Payloads ==
    { EmptyDict,
      [k \in {"id"} |-> JStr("alarm-1")],
      [k \in {"status"} |-> JStr("CANCELED")],
      [k \in {"message"} |-> JStr("error")] }

TransportAnswers == [http : TransportStatuses, body : Payloads]

\* _get / _post / _put: the parsed body for a 2xx status, handle_error for
\* any other
request(answer) ==
    IF Resolves(answer) THEN ReturnValue(JDict(answer.body))
    ELSE RaiseWith(handle_error(answer.http), answer.body)
get(answer) == request(answer)
post(answer) == request(answer)
put(answer) == request(answer)

TransportCall(endpoint, events, answer, outcome) ==
    /\ op' = Op(endpoint)
    /\ transport' = << Call(endpoint, events, answer) >>
    /\ result' = outcome
    /\ UNCHANGED << json_data, sensor_events, sent_sensor_events, pending >>

get_alarm_status ==
    \E answer \in TransportAnswers :
        TransportCall("get_alarm_status", <<>>, answer, get(answer))

update_alarm ==
    \E answer \in TransportAnswers :
        TransportCall("update_alarm", <<>>, answer, put(answer))

update_alarm_location ==
    \E answer \in TransportAnswers :
        TransportCall("update_alarm_location", <<>>, answer, post(answer))

send_sensor_events ==
    \E answer \in TransportAnswers, timestamp \in TimestampArgs :
        TransportCall("send_sensor_events",
                      << NoonlightSensorEvent(timestamp, "door", "open") >>, answer, post(answer))

NextTransport ==
    \/ get_alarm_status
    \/ update_alarm
    \/ update_alarm_location
    \/ send_sensor_events

SpecTransport == InitQueue /\ [][NextTransport]_vars

TransportCalls ==
    { "get_alarm_status", "update_alarm", "update_alarm_location", "send_sensor_events" }

\* the error kind the status chooses
ErrorKindOf(status) ==
    CASE status = 400 -> "BadRequest"
      [] status = 401 -> "Unauthorized"
      [] status = 403 -> "Forbidden"
      [] status = 429 -> "TooManyRequests"
      [] status = 500 -> "InternalServerError"
      [] OTHER -> "ClientError"

\* C14: transport result dispatch.  Every transport call resolves to the
\* parsed JSON body unchanged when the HTTP status is in 200..299; for every
\* other status it raises the error kind chosen by the status (400
\* BadRequest, 401 Unauthorized, 403 Forbidden, 429 TooManyRequests, 500
\* InternalServerError, any other ClientError) carrying the server's payload,
\* and never returns a value.
C14_TransportDispatch ==
    op.name \in TransportCalls =>
        /\ Len(transport) = 1
        /\ transport[1].http \in 200..299 =>
              result = ReturnValue(JDict(transport[1].body))
        /\ transport[1].http \notin 200..299 =>
              /\ result.kind = "raise"
              /\ result.error = ErrorKindOf(transport[1].http)
              /\ result.value = JDict(transport[1].body)

\* C14 witness: a 429 answer to update_alarm raised TooManyRequests with the
\* server's payload.
C14_Witness ==
    /\ op.name = "update_alarm"
    /\ transport[1].http = 429
    /\ result.kind = "raise"
    /\ result.error = "TooManyRequests"
    /\ result.value = JDict([k \in {"message"} |-> JStr("error")])

(***************************************************************************)
(* The sent/unsent partition, under SpecQueue (one operation at a time).   *)
(***************************************************************************)
Identity(e) == << e.timestamp, e.device_id >>
Identities(list) == { Identity(list[i]) : i \in 1..Len(list) }

\* C19: sent/unsent partition under serialized use.  After every operation
\* sent_events holds no identity twice, every sent event is in events, the
\* unsent events and the sent events are disjoint and together cover events;
\* a batch that is transmitted holds no event already marked sent, and an
\* event once marked sent stays sent.
C19_SentUnsentPartition ==
    [][ LET sent_before == Identities(sent_sensor_events)
            sent == Identities(sent_sensor_events')
            events == Identities(sensor_events')
        IN  /\ Cardinality(sent) = Len(sent_sensor_events')
            /\ sent \subseteq events
            /\ \A unsent \in unsent_events(sensor_events', sent_sensor_events') :
                  /\ Identities(unsent) \cap sent = {}
                  /\ Identities(unsent) \cup sent = events
            /\ transport' /= <<>> =>
                  Identities(transport'[1].events) \cap sent_before = {}
            /\ sent_before \subseteq sent
      ]_vars

\* C19 witness: after an acknowledged batch a second event was enqueued
\* without sending: one event is sent and the other unsent.
C19_Witness ==
    /\ op.name = "add_event"
    /\ transport = <<>>
    /\ Len(sensor_events) = 2
    /\ Len(sent_sensor_events) = 1
    /\ Cardinality(Unsent) = 1

(***************************************************************************)
(* Overlapping calls on one alarm.  A coroutine runs without interruption  *)
(* up to its next await; send_events awaits the transport call (line 141), *)
(* and other calls on the same alarm may run until the response arrives.   *)
(***************************************************************************)
MaxPending == 2     \* send_events calls suspended at the same time

\* the events enqueued while calls overlap: one device, every timestamp
OverlapEvents == { NoonlightSensorEvent(timestamp, "door", "open") : timestamp \in TimestampArgs }

\* send_events up to the await: the snapshot is taken and, when it is not
\* empty, the call is suspended on the transport with it
begin_send_events(caller, snapshot) ==
    /\ IF Len(snapshot) > 0
       THEN /\ pending' = Append(pending, [op |-> caller, snapshot |-> snapshot])
            /\ result' = NoResult
       ELSE /\ pending' = pending
            /\ result' = ReturnList(<<>>)
    /\ transport' = <<>>
    /\ sent_sensor_events' = sent_sensor_events

BeginSendEvents ==
    /\ Len(pending) < MaxPending
    /\ \E snapshot \in unsent_events(sensor_events, sent_sensor_events) :
           /\ op' = Op("send_events")
           /\ begin_send_events(op', snapshot)
    /\ UNCHANGED <<json_data, sensor_events>>

\* add_event while other calls may be suspended: with send_immediately it
\* enters send_events and is suspended there
BeginAddEvent ==
    \E event \in OverlapEvents, send_immediately \in BOOLEAN :
        /\ Contains(sensor_events, event) \/ Len(sensor_events) < MaxEvents
        /\ send_immediately => Len(pending) < MaxPending
        /\ op' = [name |-> "add_event", event |-> <<event>>, send_immediately |-> send_immediately]
        /\ IF ~Contains(sensor_events, event)
           THEN /\ sensor_events' = Append(sensor_events, event)
                /\ IF send_immediately
                   THEN \E snapshot \in unsent_events(sensor_events', sent_sensor_events) :
                            begin_send_events(op', snapshot)
                   ELSE /\ \E unsent \in unsent_events(sensor_events', sent_sensor_events) :
                               result' = ReturnList(unsent)
                        /\ transport' = <<>>
                        /\ UNCHANGED <<sent_sensor_events, pending>>
           ELSE /\ result' = ReturnNone
                /\ transport' = <<>>
                /\ UNCHANGED <<sensor_events, sent_sensor_events, pending>>
        /\ UNCHANGED json_data

\* the response of a suspended send_events arrives: the call goes on from
\* line 142 with the snapshot it took
ResumeSendEvents ==
    \E i \in 1..Len(pending) :
    \E answer \in Answers(SendSensorEventsBodies) :
        /\ op' = pending[i].op
        /\ send_events(sensor_events, pending[i].snapshot, answer)
        /\ pending' = SubSeq(pending, 1, i - 1) \o SubSeq(pending, i + 1, Len(pending))
        /\ UNCHANGED <<json_data, sensor_events>>

NextOverlap ==
    \/ BeginSendEvents
    \/ BeginAddEvent
    \/ ResumeSendEvents

SpecOverlap == InitQueue /\ [][NextOverlap]_vars

(***************************************************************************)
(* Properties of overlapping calls, under SpecOverlap.                     *)
(***************************************************************************)
\* the step resumes a suspended send_events
Resumed == Len(pending') < Len(pending)

\* C17: snapshot semantics across the suspension point.  An event enqueued
\* with send_immediately=False while a send_events call is suspended joins no
\* suspended batch and is unsent; when a suspended call resumes, what it
\* transmitted is the snapshot it took, and every unsent event outside that
\* snapshot is neither returned nor marked sent: it is still unsent.
C17_SnapshotAcrossSuspension ==
    [][ /\ ( /\ pending /= <<>>
             /\ op'.name = "add_event"
             /\ ~op'.send_immediately
             /\ sensor_events' /= sensor_events )
           => /\ pending' = pending
              /\ \A i \in 1..Len(pending') : ~Contains(pending'[i].snapshot, op'.event[1])
              /\ sent_sensor_events' = sent_sensor_events
              /\ op'.event[1] \in Unsent'
        /\ Resumed
           => /\ \E i \in 1..Len(pending) : transport'[1].events = pending[i].snapshot
              /\ \A e \in Unsent :
                    ~Contains(transport'[1].events, e)
                       => /\ e \in Unsent'
                          /\ ~Contains(result'.list, e)
      ]_vars

\* C17 witness: a send_events call transmitted the first event alone and was
\* acknowledged; the second event, enqueued after the snapshot was taken, is
\* unsent.
C17_Witness ==
    /\ op.name = "send_events"
    /\ Acknowledged
    /\ pending = <<>>
    /\ Len(sensor_events) = 2
    /\ transport[1].events = << sensor_events[1] >>
    /\ sent_sensor_events = << sensor_events[1] >>
    /\ sensor_events[2] \in Unsent

\* C18: overlapping calls are not synchronized.  When a suspended send is
\* acknowledged, every event of its batch is appended to sent_events once
\* more, also an event that an overlapping send has marked sent meanwhile.
C18_OverlapMarksAgain ==
    [][ (Resumed /\ Acknowledged')
            => \A e \in Range(transport'[1].events) :
                  Count(sent_sensor_events', e) = Count(sent_sensor_events, e) + 1
      ]_vars

\* C18 witness: the same event was transmitted in two acknowledged batches
\* and is twice in sent_events.
C18_Witness ==
    /\ Acknowledged
    /\ \E e \in Range(transport[1].events) : Count(sent_sensor_events, e) = 2

(***************************************************************************)
(* One alarm through all its operations, one at a time.  The lifecycle     *)
(* operations read and write the attribute map only, the queue operations  *)
(* the queue only; the runs explored are those of the queue on the alarm   *)
(* as created, those of the lifecycle operations on an empty queue, and a  *)
(* lifecycle operation on the alarm as created with any queue.             *)
(***************************************************************************)
AsCreated == json_data = CreatedAlarm

LifecycleAddEvent ==
    /\ AsCreated
    /\ \E event \in OverlapEvents, send_immediately \in BOOLEAN :
           /\ Contains(sensor_events, event) \/ Len(sensor_events) < MaxEvents
           /\ add_event(event, send_immediately)
           /\ UNCHANGED pending

LifecycleSendEvents == AsCreated /\ SendEvents

LifecycleCancel == (AsCreated \/ sensor_events = <<>>) /\ Cancel

LifecycleGetStatus == (AsCreated \/ sensor_events = <<>>) /\ GetStatus

LifecycleUpdateLocationCoordinates ==
    (AsCreated \/ sensor_events = <<>>) /\ UpdateLocationCoordinates

LifecycleUpdateLocationAddress ==
    (AsCreated \/ sensor_events = <<>>) /\ UpdateLocationAddress

NextLifecycle ==
    \/ LifecycleAddEvent
    \/ LifecycleSendEvents
    \/ LifecycleCancel
    \/ LifecycleGetStatus
    \/ LifecycleUpdateLocationCoordinates
    \/ LifecycleUpdateLocationAddress

SpecLifecycle == InitQueue /\ [][NextLifecycle]_vars

(***************************************************************************)
(* Properties of every operation, under SpecLifecycle.                     *)
(***************************************************************************)
MutatingCalls ==
    { "cancel", "get_status", "update_location_coordinates", "update_location_address",
      "send_events", "add_event" }

\* C15: no retries.  Each invocation of cancel, get_status,
\* update_location_coordinates, update_location_address, send_events or
\* add_event issues at most one transport call, whatever the response or
\* error: a failed or unacknowledged call is not issued again.
C15_NoRetries ==
    op.name \in MutatingCalls => Len(transport) <= 1

\* C15 witness: a send_events call the transport failed, issued once.
C15_Witness ==
    /\ op.name = "send_events"
    /\ result.kind = "raise"
    /\ Len(transport) = 1

\* the operation that ran before this step was an add_event with
\* send_immediately=True whose transport call raised
FlushRaised == op.name = "add_event" /\ op.send_immediately /\ result.kind = "raise"

\* a transport error leaves the local state as it was (the part of C20 that
\* holds either way)
ErrorLeavesState ==
    /\ result'.kind = "raise" =>
          /\ Len(transport') = 1
          /\ json_data' = json_data
          /\ sent_sensor_events' = sent_sensor_events
          /\ IF op'.name = "add_event"
             THEN /\ op'.send_immediately
                  /\ sensor_events' = Append(sensor_events, op'.event[1])
                  /\ op'.event[1] \in Unsent'
             ELSE sensor_events' = sensor_events
    /\ (op'.name = "add_event" /\ Contains(sensor_events, op'.event[1])) =>
          /\ result' = ReturnNone
          /\ transport' = <<>>
          /\ UNCHANGED <<json_data, sensor_events, sent_sensor_events>>

\* C20 as stated: transport errors leave the local state unchanged (for
\* add_event with send_immediately=True the new event stays enqueued and
\* unsent), a later add_event of the same event is a no-op returning None,
\* and only an explicit send_events transmits the event a failed flush left
\* in the queue.
C20_TransportErrorsLeaveState ==
    [][ /\ ErrorLeavesState
        /\ (FlushRaised /\ op.event[1] \notin Unsent') => op'.name = "send_events"
      ]_vars

\* C20 as amended: the same, but what transmits such an event is any later
\* send_events run that is acknowledged with the event in its batch: an
\* explicit send_events, or the flush of an add_event of another event with
\* send_immediately=True.
C20_TransportErrorsLeaveStateAmended ==
    [][ /\ ErrorLeavesState
        /\ \A e \in Unsent :
              e \notin Unsent' =>
                 /\ Acknowledged'
                 /\ Contains(transport'[1].events, e)
                 /\ \/ op'.name = "send_events"
                    \/ /\ op'.name = "add_event"
                       /\ op'.send_immediately
                       /\ ~eq(op'.event[1], e)
      ]_vars

\* C20 witness: add_event with send_immediately=True raised and the new
\* event is enqueued and unsent.
C20_Witness ==
    /\ FlushRaised
    /\ Len(transport) = 1
    /\ op.event[1] \in Unsent
    /\ sent_sensor_events = <<>>

(***************************************************************************)
(* A caller that retries.  Operations run one at a time; the caller        *)
(* invokes send_events again as long as events are unsent, and the         *)
(* transport does not refuse for ever: an acknowledged send_events, while  *)
(* it stays possible, eventually happens.                                  *)
(***************************************************************************)
\* the events the retrying caller enqueues: two devices, every timestamp
RetryEvents ==
    { NoonlightSensorEvent(timestamp, device_id, "open") :
        timestamp \in TimestampArgs, device_id \in DeviceIds }

RetryAddEvent ==
    \E event \in RetryEvents, send_immediately \in BOOLEAN :
        /\ Contains(sensor_events, event) \/ Len(sensor_events) < MaxEvents
        /\ add_event(event, send_immediately)
        /\ UNCHANGED pending

\* a send_events call that transmits a batch and is answered with an 'id'
AcknowledgedSend == SendEvents /\ Acknowledged'

NextRetry ==
    \/ RetryAddEvent
    \/ SendEvents

SpecRetry == InitQueue /\ [][NextRetry]_vars /\ WF_vars(AcknowledgedSend)

\* C21: eventual delivery under caller retry.  If the caller keeps invoking
\* send_events while unsent events exist and the transport eventually
\* acknowledges a batch, every event that is enqueued is eventually in
\* sent_events, and whenever events are unsent, unsent_events eventually
\* becomes empty: no enqueued event stays unsent for ever.
C21_EventualDelivery ==
    /\ \A e \in RetryEvents : (e \in Range(sensor_events)) ~> (e \in Sent)
    /\ (Unsent /= {}) ~> (Unsent = {})

\* C21 witness: an explicit send_events was acknowledged for a batch of two
\* events left unsent before, and nothing is unsent any more.
C21_Witness ==
    /\ op.name = "send_events"
    /\ Acknowledged
    /\ Len(transport[1].events) = 2
    /\ Range(sensor_events) = Sent
    /\ Unsent = {}

====
